---- MODULE Spec2Model ----
(***************************************************************************)
(* Model of the NCAA tournament Slack Canvas app: the refresh cycle        *)
(* (updateTournamentData), its callers (startup, cron, direct messages),   *)
(* the statistics engine (calculateTournamentStats) and the canvas         *)
(* renderer (updateCanvasContent).                                         *)
(*                                                                         *)
(* Numbers with one decimal place (avgPointsPerGame, avgPoints) are kept   *)
(* in tenths: 1300 stands for 130.0.                                       *)
(***************************************************************************)
EXTENDS Integers, Sequences, FiniteSets, TLC

(***************************************************************************)
(* Bounds of the model.                                                    *)
(***************************************************************************)
\* number of refresh cycles one behaviour starts
MaxCycles == 2
\* longest batch of the classification specification
MaxClassGames == 2
\* longest batch of the averaging specification
MaxAvgGames == 4
\* longest batch of the closest-games specification
MaxRankGames == 6
\* longest batch of the top-scoring-teams specification
MaxTopGames == 3
\* longest batch of the rendering specification, and how many times one
\* snapshot is rendered again
MaxRenderGames == 2
MaxRenders == 2
\* longest batch of the close-games specification
MaxCloseGames == 2

(***************************************************************************)
(* JavaScript values.                                                      *)
(***************************************************************************)
\* null is falsy; among the times, which start at 1, it is 0
null == 0
undefined == "undefined"
\* the object literal {}
EmptyObject == <<>>

Abs(x) == IF x < 0 THEN -x ELSE x

\* Math.round(x * 10) / 10 for x = num / den, den > 0, in tenths:
\* Math.round rounds to the nearest integer, a tie towards +Infinity.
RoundFloorTenths(num, den) == (10 * num) \div den
RoundTenths(num, den) == (20 * num + den) \div (2 * den)

\* Array.prototype.slice(0, n)
Slice(s, n) == IF Len(s) <= n THEN s ELSE SubSeq(s, 1, n)

\* One step of a stable sort of s by the keys k (k[i] is the key of s[i]):
\* position of the first element whose key is strictly greater than key x,
\* so that an element goes after every element it compares equal to.
InsertAt(keys, x) ==
  LET later == {i \in 1..Len(keys) : x < keys[i]}
  IN IF later = {} THEN Len(keys) + 1
     ELSE CHOOSE i \in later : \A j \in later : i <= j

InsertSeq(s, p, x) == SubSeq(s, 1, p - 1) \o <<x>> \o SubSeq(s, p, Len(s))

\* Array.prototype.sort((a, b) => key(a) - key(b)): ascending by key and
\* stable (ECMAScript 2019, node 18). The result is the sorted sequence of
\* the indices of s.
SortedIndices(k) ==
  LET step[n \in 0..Len(k)] ==
        IF n = 0 THEN [idx |-> <<>>, keys |-> <<>>]
        ELSE LET prev == step[n - 1]
                 p == InsertAt(prev.keys, k[n])
             IN [idx |-> InsertSeq(prev.idx, p, n),
                 keys |-> InsertSeq(prev.keys, p, k[n])]
  IN step[Len(k)].idx

SortByKey(s, k) ==
  LET idx == SortedIndices(k) IN [i \in 1..Len(s) |-> s[idx[i]]]

(***************************************************************************)
(* Game records, as the provider returns them.                             *)
(***************************************************************************)
Game(id, status, dt, away, home, aseed, hseed, ascore, hscore) ==
  [GameID |-> id, Status |-> status, DateTime |-> dt,
   AwayTeam |-> away, HomeTeam |-> home,
   AwayTeamSeed |-> aseed, HomeTeamSeed |-> hseed,
   AwayTeamScore |-> ascore, HomeTeamScore |-> hscore, Round |-> 1]

\* getMockTournamentData: DateTime is written as month-day-hour-minute.
getMockTournamentData ==
  << Game(1001, "Final", 3191915, "Virginia", "Colorado", 9, 8, 57, 63),
     Game(1002, "Final", 3191215, "Duquesne", "BYU", 11, 6, 71, 69),
     Game(1003, "InProgress", 3201430, "NC State", "Texas Tech", 10, 7, 45, 42),
     Game(1004, "Scheduled", 3201920, "Marquette", "Western Kentucky", 2, 15, 0, 0),
     Game(1005, "Scheduled", 3202130, "Kentucky", "Oakland", 3, 14, 0, 0) >>

NOTIFICATION_THRESHOLD == 5

(***************************************************************************)
(* Classification (updateTournamentData, calculateTournamentStats).        *)
(***************************************************************************)
IsInProgress(game) == game.Status = "InProgress"
IsFinal(game) == game.Status = "Final"
IsScheduled(game) == game.Status = "Scheduled"

\* the close-game test with < for <=
IsCloseGameStrict(game) ==
  Abs(game.AwayTeamScore - game.HomeTeamScore) < NOTIFICATION_THRESHOLD

IsCloseGame(game) ==
  Abs(game.AwayTeamScore - game.HomeTeamScore) <= NOTIFICATION_THRESHOLD

\* the upset test of updateTournamentData with >= for > on the scores
IsUpsetLoose(game) ==
  \/ game.AwayTeamSeed > game.HomeTeamSeed /\ game.AwayTeamScore >= game.HomeTeamScore
  \/ game.HomeTeamSeed > game.AwayTeamSeed /\ game.HomeTeamScore >= game.AwayTeamScore

\* The upset test is written out three times in the source.
\* updateTournamentData: completedGames.filter(game => ...)
IsUpset(game) ==
  \/ game.AwayTeamSeed > game.HomeTeamSeed /\ game.AwayTeamScore > game.HomeTeamScore
  \/ game.HomeTeamSeed > game.AwayTeamSeed /\ game.HomeTeamScore > game.AwayTeamScore

\* the upset test of calculateTournamentStats with the scores left out
IsUpsetStatsBySeed(game) == game.AwayTeamSeed # game.HomeTeamSeed

\* calculateTournamentStats: completedGames.filter(game => ...)
IsUpsetStats(game) ==
  \/ game.AwayTeamSeed > game.HomeTeamSeed /\ game.AwayTeamScore > game.HomeTeamScore
  \/ game.HomeTeamSeed > game.AwayTeamSeed /\ game.HomeTeamScore > game.AwayTeamScore

\* the upset test of formatGameForDisplay with the status left out
IsUpsetDisplayAnyStatus(game) ==
  \/ game.AwayTeamSeed > game.HomeTeamSeed /\ game.AwayTeamScore > game.HomeTeamScore
  \/ game.HomeTeamSeed > game.AwayTeamSeed /\ game.HomeTeamScore > game.AwayTeamScore

\* formatGameForDisplay: const isUpset = (game.Status === 'Final') && (...)
IsUpsetDisplay(game) ==
  /\ game.Status = "Final"
  /\ \/ game.AwayTeamSeed > game.HomeTeamSeed /\ game.AwayTeamScore > game.HomeTeamScore
     \/ game.HomeTeamSeed > game.AwayTeamSeed /\ game.HomeTeamScore > game.AwayTeamScore

(***************************************************************************)
(* calculateTournamentStats.                                               *)
(***************************************************************************)
RECURSIVE SumPoints(_)
SumPoints(s) ==
  IF s = <<>> THEN 0
  ELSE Head(s).AwayTeamScore + Head(s).HomeTeamScore + SumPoints(Tail(s))

avgPointsFloor(completedGames) ==
  IF Len(completedGames) # 0
  THEN RoundFloorTenths(SumPoints(completedGames), Len(completedGames))
  ELSE 0

avgPoints(completedGames) ==
  IF Len(completedGames) # 0
  THEN RoundTenths(SumPoints(completedGames), Len(completedGames))
  ELSE 0

\* teamScores is an object keyed by team name: here the sequence of its
\* entries [team, points, games] in the order the keys were created.
HasTeam(ts, team) == \E i \in 1..Len(ts) : ts[i].team = team

EnsureTeam(ts, team) ==
  IF HasTeam(ts, team) THEN ts
  ELSE Append(ts, [team |-> team, points |-> 0, games |-> 0])

Credit(ts, team, pts) ==
  [i \in 1..Len(ts) |->
     IF ts[i].team = team
     THEN [ts[i] EXCEPT !.points = @ + pts, !.games = @ + 1]
     ELSE ts[i]]

RECURSIVE TeamScores(_, _)
TeamScores(ts, completedGames) ==
  IF completedGames = <<>> THEN ts
  ELSE LET game == Head(completedGames)
           t1 == EnsureTeam(EnsureTeam(ts, game.AwayTeam), game.HomeTeam)
           t2 == Credit(t1, game.AwayTeam, game.AwayTeamScore)
           t3 == Credit(t2, game.HomeTeam, game.HomeTeamScore)
       IN TeamScores(t3, Tail(completedGames))

\* The keys of an object that are array indices ("7", "12") are enumerated
\* first, in ascending numeric order, ahead of every other key, whenever they
\* were created (OrdinaryOwnPropertyKeys): the team names of the model that
\* are such keys, and the number each one is.
ArrayIndexNames == {"3", "7"}

ArrayIndex(team) == CASE team = "3" -> 3 [] team = "7" -> 7

IsArrayIndexEntry(e) == e.team \in ArrayIndexNames
IsStringKeyEntry(e) == e.team \notin ArrayIndexNames

\* Object.entries(teamScores)
ObjectEntries(ts) ==
  LET indexKeys == SelectSeq(ts, IsArrayIndexEntry)
      stringKeys == SelectSeq(ts, IsStringKeyEntry)
      key == [i \in 1..Len(indexKeys) |-> ArrayIndex(indexKeys[i].team)]
  IN SortByKey(indexKeys, key) \o stringKeys

TeamWithAvg(e) ==
  [team |-> e.team,
   avgPoints |-> IF e.games # 0 THEN RoundTenths(e.points, e.games) ELSE 0,
   totalPoints |-> e.points,
   games |-> e.games]

HasGames(t) == t.games > 0

topScoringTeams(completedGames) ==
  LET entries == ObjectEntries(TeamScores(<<>>, completedGames))
      withAvg == [i \in 1..Len(entries) |-> TeamWithAvg(entries[i])]
      played == SelectSeq(withAvg, HasGames)
      \* (a, b) => b.avgPoints - a.avgPoints
      key == [i \in 1..Len(played) |-> 0 - played[i].avgPoints]
  IN Slice(SortByKey(played, key), 5)

MarginOfVictory(game) ==
  [awayTeam |-> game.AwayTeam, homeTeam |-> game.HomeTeam,
   awayScore |-> game.AwayTeamScore, homeScore |-> game.HomeTeamScore,
   margin |-> Abs(game.AwayTeamScore - game.HomeTeamScore),
   winner |-> IF game.AwayTeamScore > game.HomeTeamScore
              THEN game.AwayTeam ELSE game.HomeTeam,
   loser |-> IF game.AwayTeamScore > game.HomeTeamScore
             THEN game.HomeTeam ELSE game.AwayTeam]

\* closestGames with the slice taken before the sort
closestGamesSliceFirst(completedGames) ==
  LET marginOfVictory ==
        [i \in 1..Len(completedGames) |-> MarginOfVictory(completedGames[i])]
      first == Slice(marginOfVictory, 5)
      key == [i \in 1..Len(first) |-> first[i].margin]
  IN SortByKey(first, key)

closestGames(completedGames) ==
  LET marginOfVictory ==
        [i \in 1..Len(completedGames) |-> MarginOfVictory(completedGames[i])]
      \* (a, b) => a.margin - b.margin
      key == [i \in 1..Len(marginOfVictory) |-> marginOfVictory[i].margin]
  IN Slice(SortByKey(marginOfVictory, key), 5)

calculateTournamentStats(games) ==
  LET completedGames == SelectSeq(games, IsFinal)
      inProgressGames == SelectSeq(games, IsInProgress)
      upcomingGames == SelectSeq(games, IsScheduled)
      upsets == SelectSeq(completedGames, IsUpsetStats)
  IN [totalGames |-> Len(games),
      completedGames |-> Len(completedGames),
      inProgressGames |-> Len(inProgressGames),
      upcomingGames |-> Len(upcomingGames),
      upsets |-> Len(upsets),
      avgPointsPerGame |-> avgPoints(completedGames),
      topScoringTeams |-> topScoringTeams(completedGames),
      closestGames |-> closestGames(completedGames)]

(***************************************************************************)
(* The snapshot updateTournamentData builds from one fetched batch.        *)
(***************************************************************************)
\* a snapshot whose upsets are still those of the snapshot it replaces
BuildSnapshotKeepUpsets(gameData, now, old) ==
  LET currentGames == SelectSeq(gameData, IsInProgress)
      completedGames == SelectSeq(gameData, IsFinal)
      upcomingGames == SelectSeq(gameData, IsScheduled)
  IN [games |-> gameData,
      currentGames |-> currentGames,
      completedGames |-> completedGames,
      upcomingGames |-> upcomingGames,
      closeGames |-> SelectSeq(currentGames, IsCloseGame),
      upsets |-> old.upsets,
      stats |-> calculateTournamentStats(gameData),
      lastUpdated |-> now]

\* old is the value of tournamentData the new object replaces: unused
BuildSnapshot(gameData, now, old) ==
  LET currentGames == SelectSeq(gameData, IsInProgress)
      completedGames == SelectSeq(gameData, IsFinal)
      upcomingGames == SelectSeq(gameData, IsScheduled)
      closeGames == SelectSeq(currentGames, IsCloseGame)
      upsets == SelectSeq(completedGames, IsUpset)
      stats == calculateTournamentStats(gameData)
  IN [games |-> gameData,
      currentGames |-> currentGames,
      completedGames |-> completedGames,
      upcomingGames |-> upcomingGames,
      closeGames |-> closeGames,
      upsets |-> upsets,
      stats |-> stats,
      lastUpdated |-> now]

\* let tournamentData = { games: [], lastUpdated: null, bracket: null, ... }
InitialTournamentData ==
  [games |-> <<>>, lastUpdated |-> null, bracket |-> null,
   upsets |-> <<>>, stats |-> EmptyObject]

\* data.field is truthy: the field is present (arrays and objects are truthy)
Has(data, field) == field \in DOMAIN data

\* data.field || []
OrEmpty(data, field) == IF Has(data, field) THEN data[field] ELSE <<>>

(***************************************************************************)
(* Rendering (services/canvasService.js). A text is a record               *)
(* [label, lines]: a fixed label and the formatted lines under it.         *)
(***************************************************************************)
\* formatGameForDisplay: the parts of the one-line text of a game
formatGameForDisplay(game) ==
  [statusEmoji |-> CASE game.Status = "Final" -> "flag"
                     [] game.Status = "InProgress" -> "ball"
                     [] game.Status = "Scheduled" -> "calendar"
                     [] OTHER -> "question",
   away |-> game.AwayTeam, awaySeed |-> game.AwayTeamSeed,
   home |-> game.HomeTeam, homeSeed |-> game.HomeTeamSeed,
   \* the scores, or "vs" for a game that has not started
   hasScore |-> game.Status # "Scheduled",
   awayScore |-> IF game.Status # "Scheduled" THEN game.AwayTeamScore ELSE 0,
   homeScore |-> IF game.Status # "Scheduled" THEN game.HomeTeamScore ELSE 0,
   isUpset |-> IsUpsetDisplay(game),
   statusText |-> CASE game.Status = "Final" -> "FINAL"
                    [] game.Status = "InProgress" -> "period and time remaining"
                    [] game.Status = "Scheduled" -> "start time"
                    [] OTHER -> game.Status,
   startTime |-> IF game.Status = "Scheduled" THEN game.DateTime ELSE 0,
   round |-> game.Round]

FormatGames(games) == [i \in 1..Len(games) |-> formatGameForDisplay(games[i])]

Text(label, lines) == [label |-> label, lines |-> lines]

\* formatStatisticsForDisplay
formatStatisticsForDisplay(stats) ==
  Text("Tournament Progress",
       << [completed |-> stats.completedGames,
           inProgress |-> stats.inProgressGames,
           upcoming |-> stats.upcomingGames,
           \* the Upsets line is written only when stats.upsets > 0
           upsetsLine |-> stats.upsets > 0,
           upsets |-> stats.upsets,
           avgPointsPerGame |-> stats.avgPointsPerGame,
           topScoringTeams |->
             [i \in 1..Len(stats.topScoringTeams) |->
                <<i, stats.topScoringTeams[i].team,
                  stats.topScoringTeams[i].avgPoints>>],
           closestGames |->
             [i \in 1..Len(stats.closestGames) |->
                [rank |-> i,
                 winner |-> stats.closestGames[i].winner,
                 loser |-> stats.closestGames[i].loser,
                 margin |-> stats.closestGames[i].margin,
                 awayScore |-> stats.closestGames[i].awayScore,
                 homeScore |-> stats.closestGames[i].homeScore]]] >>)

\* new Date(x).toLocaleString('en-US', {dateStyle: 'medium', timeStyle: 'medium'})
toLocaleString(t) == [locale |-> "en-US", style |-> "medium", time |-> t]

Header(text) == [type |-> "header", text |-> Text(text, <<>>)]
Divider == [type |-> "divider", text |-> Text("", <<>>)]
Section(text) == [type |-> "section", text |-> text]
Context(text) == [type |-> "context", text |-> text]

\* [...games].sort((a, b) => new Date(b.DateTime) - new Date(a.DateTime))
MostRecentFirst(games) ==
  SortByKey(games, [i \in 1..Len(games) |-> 0 - games[i].DateTime])

\* [...games].sort((a, b) => new Date(a.DateTime) - new Date(b.DateTime))
SoonestFirst(games) ==
  SortByKey(games, [i \in 1..Len(games) |-> games[i].DateTime])

\* updateCanvasContent sending the sections that hold data only: the
\* statistics and the footer
RenderBlocksPatch(data) ==
  LET statsText ==
        IF Has(data, "stats") THEN formatStatisticsForDisplay(data.stats)
        ELSE Text("Statistics not available yet.", <<>>)
      lastUpdated ==
        IF Has(data, "lastUpdated") /\ data.lastUpdated # null
        THEN Text("Last updated", <<toLocaleString(data.lastUpdated)>>)
        ELSE Text("Last updated: Unknown", <<>>)
  IN << Header("Tournament Statistics"), Section(statsText), Divider,
        Context(lastUpdated) >>

\* the blocks updateCanvasContent builds from data, before it calls the store
RenderBlocks(data) ==
  LET currentGames == OrEmpty(data, "currentGames")
      currentGamesText ==
        IF Len(currentGames) > 0 THEN Text("", FormatGames(currentGames))
        ELSE Text("No games currently in progress.", <<>>)
      recentCompletedGames ==
        Slice(MostRecentFirst(OrEmpty(data, "completedGames")), 5)
      completedGamesText ==
        IF Len(recentCompletedGames) > 0
        THEN Text("", FormatGames(recentCompletedGames))
        ELSE Text("No completed games yet.", <<>>)
      upcomingGames == Slice(SoonestFirst(OrEmpty(data, "upcomingGames")), 5)
      upcomingGamesText ==
        IF Len(upcomingGames) > 0 THEN Text("", FormatGames(upcomingGames))
        ELSE Text("No upcoming games scheduled.", <<>>)
      statsText ==
        IF Has(data, "stats") THEN formatStatisticsForDisplay(data.stats)
        ELSE Text("Statistics not available yet.", <<>>)
      lastUpdated ==
        IF Has(data, "lastUpdated") /\ data.lastUpdated # null
        THEN Text("Last updated", <<toLocaleString(data.lastUpdated)>>)
        ELSE Text("Last updated: Unknown", <<>>)
      updatedBlocks ==
        << Header("NCAA Tournament Tracker 2025"), Divider,
           Header("Games In Progress"), Section(currentGamesText), Divider,
           Header("Recently Completed Games"), Section(completedGamesText), Divider,
           Header("Upcoming Games"), Section(upcomingGamesText), Divider,
           Header("Tournament Statistics"), Section(statsText), Divider,
           Context(lastUpdated) >>
      closeGames == OrEmpty(data, "closeGames")
  IN IF Len(closeGames) > 0
     \* updatedBlocks.splice(2, 0, alert, divider)
     THEN SubSeq(updatedBlocks, 1, 2)
            \o << Section(Text("CLOSE GAME ALERT", FormatGames(closeGames))),
                  Divider >>
            \o SubSeq(updatedBlocks, 3, Len(updatedBlocks))
     ELSE updatedBlocks

\* new Date().toLocaleString()
toLocaleStringDefault(t) == [locale |-> "default", style |-> "default", time |-> t]

\* The second copy of updateCanvasContent. It differs from the first in the
\* texts of the empty sections, in marking a close game on its line under
\* Games In Progress in place of the alert section, in showing 10 games for
\* 5, and in the footer, which holds the time of the call. Its
\* formatStatisticsForDisplay differs in the wording of two labels only.
RenderBlocksCopy(data, now) ==
  LET currentGames == OrEmpty(data, "currentGames")
      closeGames == OrEmpty(data, "closeGames")
      closeGameIds == {closeGames[i].GameID : i \in 1..Len(closeGames)}
      gamesInProgressContent ==
        IF Len(currentGames) > 0
        THEN Text("", [i \in 1..Len(currentGames) |->
                         [line |-> formatGameForDisplay(currentGames[i]),
                          closeGame |-> currentGames[i].GameID \in closeGameIds]])
        ELSE Text("No games in progress.", <<>>)
      completedGames == OrEmpty(data, "completedGames")
      completedGamesContent ==
        IF Len(completedGames) > 0
        THEN Text("", FormatGames(Slice(MostRecentFirst(completedGames), 10)))
        ELSE Text("No completed games.", <<>>)
      upcomingGames == OrEmpty(data, "upcomingGames")
      upcomingGamesContent ==
        IF Len(upcomingGames) > 0
        THEN Text("", FormatGames(Slice(SoonestFirst(upcomingGames), 10)))
        ELSE Text("No upcoming games.", <<>>)
      statisticsContent ==
        IF Has(data, "stats") THEN formatStatisticsForDisplay(data.stats)
        ELSE Text("Statistics not available.", <<>>)
      lastUpdatedText == Text("Last updated", <<toLocaleStringDefault(now)>>)
  IN << Header("NCAA Tournament Tracker 2025"), Divider,
        Header("Games In Progress"), Section(gamesInProgressContent), Divider,
        Header("Recently Completed Games"), Section(completedGamesContent), Divider,
        Header("Upcoming Games"), Section(upcomingGamesContent), Divider,
        Header("Tournament Statistics"), Section(statisticsContent), Divider,
        Context(lastUpdatedText) >>

\* the data of the "loading" content initializeCanvas publishes
LoadingData(now) ==
  [games |-> <<>>, status |-> "initializing", lastUpdated |-> now,
   message |-> "Loading NCAA tournament data..."]

\* createTournamentCanvas: initial_blocks
InitialBlocks ==
  << Header("NCAA Tournament Tracker 2025"),
     Section(Text("Loading tournament data...", <<>>)) >>

\* updateCanvasStructure: blocks
StructureBlocks ==
  << Header("NCAA Tournament Tracker 2025"), Divider,
     Header("Games In Progress"), Section(Text("Loading games...", <<>>)), Divider,
     Header("Recently Completed Games"),
     Section(Text("Loading completed games...", <<>>)), Divider,
     Header("Upcoming Games"),
     Section(Text("Loading upcoming games...", <<>>)), Divider,
     Header("Tournament Statistics"), Section(Text("Loading statistics...", <<>>)), Divider,
     Context(Text("Last updated: Loading...", <<>>)) >>

(***************************************************************************)
(* The collaborators: what the provider may answer, and the canvases.      *)
(***************************************************************************)
\* a batch of two live games: an upset and a close game in progress
LiveBatch ==
  << Game(1, "Final", 10, "Yale", "Auburn", 13, 4, 78, 76),
     Game(2, "InProgress", 20, "Drake", "Miami", 10, 7, 30, 28) >>

\* a batch with records the provider should never send: a seed of 17, a
\* negative score, and a Final game with equal scores
OddBatch ==
  << Game(3, "Final", 30, "Iona", "Duke", 17, 1, 50, 60),
     Game(4, "InProgress", 40, "Utah", "Ohio", 5, 12, -1, 9),
     Game(5, "Final", 50, "Rice", "Navy", 8, 9, 66, 66) >>

ProviderBatches == {LiveBatch, OddBatch}

\* what axios.get may come to: a rejection (network error, HTTP error), a
\* body that is an array of games, or a body that is no array
Responses ==
  {[status |-> "error", array |-> FALSE, data |-> <<>>],
   [status |-> "ok", array |-> FALSE, data |-> <<>>]}
    \cup {[status |-> "ok", array |-> TRUE, data |-> b] : b \in ProviderBatches}

\* fetchNcaaGames with the catch block rethrowing
fetchNcaaGamesRethrow(response) ==
  IF response.status = "error"
  THEN [threw |-> TRUE, array |-> FALSE, data |-> <<>>]
  ELSE [threw |-> FALSE, array |-> response.array, data |-> response.data]

\* fetchNcaaGames: response.data, or the mock data when the call throws
fetchNcaaGames(response) ==
  IF response.status = "error"
  THEN [threw |-> FALSE, array |-> TRUE, data |-> getMockTournamentData]
  ELSE [threw |-> FALSE, array |-> response.array, data |-> response.data]

\* the catch of updateTournamentData, missing: the error reaches the caller
CycleResultNoCatch(threw) == IF threw THEN "threw" ELSE "returned"

\* updateTournamentData: try { ... } catch (error) { console.error(...) }
CycleResult(threw) == "returned"

CanvasIds == {"C_ENV", "C_NEW"}
Cycles == 1..MaxCycles
NoRequest == [canvas_id |-> undefined, blocks |-> <<>>]
NoCycle ==
  [pc |-> "idle", caller |-> "none", fetch |-> "none", built |-> EmptyObject,
   request |-> NoRequest, publish |-> "none", result |-> "none"]

VARIABLES
  tournamentData,  \* the module-level let tournamentData
  CANVAS_ID,       \* process.env.SLACK_CANVAS_ID, read once
  canvasExists,    \* the canvases the document store holds
  canvasBlocks,    \* their content
  boot,            \* where the startup function stands
  cycles,          \* the calls of updateTournamentData, in the order they start
  started,         \* how many calls have started
  clock,           \* the time the next new Date() returns
  said,            \* the last message a handler said
  canvasService    \* the file require('./services/canvasService') loaded

vars ==
  <<tournamentData, CANVAS_ID, canvasExists, canvasBlocks, boot, cycles,
    started, clock, said, canvasService>>

\* The repository holds updateCanvasContent twice: in
\* services/canvasService.js, which is what the path of the require names,
\* and in a second file of the same exports whose path is not known.
CanvasServiceFiles == {"services/canvasService.js", "unnamed/part_001"}

\* the blocks updateCanvasContent sends when it is called with data at now
UpdateCanvasContentBlocks(data, now) ==
  IF canvasService = "services/canvasService.js" THEN RenderBlocks(data)
  ELSE RenderBlocksCopy(data, now)

Say(text, n) == [text |-> text, n |-> n]

Init ==
  /\ tournamentData = InitialTournamentData
  /\ CANVAS_ID \in {undefined, "C_ENV"}
  /\ canvasExists \in {{}, {"C_ENV"}}
  /\ CANVAS_ID = undefined => canvasExists = {}
  /\ canvasBlocks = [id \in CanvasIds |-> <<>>]
  /\ boot = "checkCanvas"
  /\ cycles = [c \in Cycles |-> NoCycle]
  /\ started = 0
  /\ clock = 1
  /\ said = Say("", 0)
  /\ canvasService = "services/canvasService.js"

(***************************************************************************)
(* Startup: initializeCanvas, then the first cycle, then scheduleUpdates.  *)
(***************************************************************************)
\* checkCanvas: false without an id, false on an error, else !!result.canvas
InitCheckCanvas ==
  /\ boot = "checkCanvas"
  /\ \E callOk \in BOOLEAN :
       LET canvasExistsNow ==
             CANVAS_ID # undefined /\ callOk /\ CANVAS_ID \in canvasExists
       IN boot' = IF canvasExistsNow THEN "updateStructure" ELSE "createCanvas"
  /\ UNCHANGED <<canvasService, tournamentData, CANVAS_ID, canvasExists, canvasBlocks, cycles,
                 started, clock, said>>

\* createTournamentCanvas resolves: the new id is logged, CANVAS_ID stays
InitCreateOk ==
  /\ boot = "createCanvas"
  /\ canvasExists' = canvasExists \cup {"C_NEW"}
  /\ canvasBlocks' = [canvasBlocks EXCEPT !["C_NEW"] = InitialBlocks]
  /\ boot' = "loadingContent"
  /\ UNCHANGED <<canvasService, tournamentData, CANVAS_ID, cycles, started, clock, said>>

\* updateCanvasStructure resolves
InitStructureOk ==
  /\ boot = "updateStructure"
  /\ canvasBlocks' = [canvasBlocks EXCEPT ![CANVAS_ID] = StructureBlocks]
  /\ boot' = "loadingContent"
  /\ UNCHANGED <<canvasService, tournamentData, CANVAS_ID, canvasExists, cycles, started,
                 clock, said>>

\* createTournamentCanvas or updateCanvasStructure throws: caught at line 66
InitStepFails ==
  /\ boot \in {"createCanvas", "updateStructure"}
  /\ boot' = "firstCycle"
  /\ UNCHANGED <<canvasService, tournamentData, CANVAS_ID, canvasExists, canvasBlocks, cycles,
                 started, clock, said>>

\* the "loading" content, sent to CANVAS_ID with lastUpdated read at the call
InitContentOk ==
  /\ boot = "loadingContent"
  /\ CANVAS_ID \in canvasExists
  /\ canvasBlocks' =
       [canvasBlocks EXCEPT ![CANVAS_ID] =
          UpdateCanvasContentBlocks(LoadingData(clock), clock)]
  /\ boot' = "firstCycle"
  /\ UNCHANGED <<canvasService, tournamentData, CANVAS_ID, canvasExists, cycles, started,
                 clock, said>>

InitContentFails ==
  /\ boot = "loadingContent"
  /\ boot' = "firstCycle"
  /\ UNCHANGED <<canvasService, tournamentData, CANVAS_ID, canvasExists, canvasBlocks, cycles,
                 started, clock, said>>

(***************************************************************************)
(* updateTournamentData: one call is one cycle.                            *)
(***************************************************************************)
\* a call that goes straight to its publish, with no fetch
BeginAtPublish(who) ==
  /\ started < MaxCycles
  /\ started' = started + 1
  /\ cycles' = [cycles EXCEPT ![started + 1] =
                  [NoCycle EXCEPT !.pc = "publishing", !.caller = who]]

Begin(who) ==
  /\ started < MaxCycles
  /\ started' = started + 1
  /\ cycles' = [cycles EXCEPT ![started + 1] =
                  [NoCycle EXCEPT !.pc = "fetching", !.caller = who]]

\* await updateTournamentData() of the startup function
BootCycle ==
  /\ boot = "firstCycle"
  /\ Begin("boot")
  /\ boot' = "inFirstCycle"
  /\ UNCHANGED <<canvasService, tournamentData, CANVAS_ID, canvasExists, canvasBlocks, clock,
                 said>>

\* the cron callback
CronTrigger ==
  /\ boot = "scheduled"
  /\ Begin("cron")
  /\ UNCHANGED <<canvasService, tournamentData, CANVAS_ID, canvasExists, canvasBlocks, boot,
                 clock, said>>

\* a direct message with "refresh" or "update": say(...) is taken to resolve
DmRefresh ==
  /\ Begin("dm")
  /\ said' = Say("Fetching the latest tournament data...", 0)
  /\ UNCHANGED <<canvasService, tournamentData, CANVAS_ID, canvasExists, canvasBlocks, boot,
                 clock>>

\* what the caller does when its await updateTournamentData() settles
Settle(c, result) ==
  /\ boot' = IF cycles[c].caller # "boot" THEN boot
             ELSE IF result = "returned" THEN "scheduled" ELSE "crashed"
  /\ said' = IF cycles[c].caller # "dm" THEN said
             ELSE IF result = "returned"
                  THEN Say("Tournament data has been refreshed! Check the Canvas for updates.", 0)
                  ELSE Say("Sorry, I encountered an error processing your request.", 0)

\* fetchNcaaGames settles with an array: the snapshot is built and assigned,
\* the blocks are rendered and web.canvas.update is called, all in one turn
FetchArray(c, response) ==
  LET gameData == fetchNcaaGames(response)
      data == BuildSnapshot(gameData.data, clock, tournamentData)
  IN /\ cycles[c].pc = "fetching"
     /\ ~gameData.threw /\ gameData.array
     /\ tournamentData' = data
     /\ clock' = clock + 1
     /\ cycles' = [cycles EXCEPT ![c] =
          [@ EXCEPT !.pc = "publishing", !.fetch = response.status,
                    !.built = data, !.publish = "called",
                    !.request = [canvas_id |-> CANVAS_ID,
                                 blocks |->
                                   UpdateCanvasContentBlocks(data, clock)]]]
     /\ UNCHANGED <<canvasService, CANVAS_ID, canvasExists, canvasBlocks, boot, started,
                    said>>

\* fetchNcaaGames throws, or gameData.filter is not a function: line 114
FetchAborts(c, response) ==
  LET gameData == fetchNcaaGames(response)
      result == CycleResult(TRUE)
  IN /\ cycles[c].pc = "fetching"
     /\ gameData.threw \/ ~gameData.array
     /\ cycles' = [cycles EXCEPT ![c] =
          [NoCycle EXCEPT !.fetch = response.status, !.result = result]]
     /\ Settle(c, result)
     /\ UNCHANGED <<canvasService, tournamentData, CANVAS_ID, canvasExists, canvasBlocks,
                    started, clock>>

\* web.canvas.update resolves: the store holds the blocks of the request
PublishOk(c) ==
  LET result == CycleResult(FALSE)
  IN /\ cycles[c].pc = "publishing"
     /\ cycles[c].request.canvas_id \in canvasExists
     /\ canvasBlocks' =
          [canvasBlocks EXCEPT ![cycles[c].request.canvas_id] =
             cycles[c].request.blocks]
     /\ cycles' = [cycles EXCEPT ![c] =
          [NoCycle EXCEPT !.publish = "ok", !.result = result]]
     /\ Settle(c, result)
     /\ UNCHANGED <<canvasService, tournamentData, CANVAS_ID, canvasExists, started, clock>>

\* web.canvas.update rejects: updateCanvasContent rethrows, line 114 catches
PublishFails(c) ==
  LET result == CycleResult(TRUE)
  IN /\ cycles[c].pc = "publishing"
     /\ cycles' = [cycles EXCEPT ![c] =
          [NoCycle EXCEPT !.publish = "failed", !.result = result]]
     /\ Settle(c, result)
     /\ UNCHANGED <<canvasService, tournamentData, CANVAS_ID, canvasExists, canvasBlocks,
                    started, clock>>

(***************************************************************************)
(* The direct-message queries: each reads tournamentData at one instant    *)
(* and changes nothing but what is said. They are no part of Next below,   *)
(* where what is said by a query bears on nothing; SpecQuery has them.     *)
(***************************************************************************)
\* the count of a subset read with no default: .length of undefined throws
CountNoDefault(data, field) ==
  IF Has(data, field) THEN [threw |-> FALSE, n |-> Len(data[field])]
  ELSE [threw |-> TRUE, n |-> 0]

\* const games = tournamentData.field || []; ... games.length
CountOf(data, field) == [threw |-> FALSE, n |-> Len(OrEmpty(data, field))]

\* the answer of a count query, or that of the catch of the handler
Answer(label, count) ==
  IF count.threw
  THEN Say("Sorry, I encountered an error processing your request.", 0)
  ELSE Say(label, count.n)

DmCurrent ==
  /\ said' = Answer("games in progress", CountOf(tournamentData, "currentGames"))
  /\ UNCHANGED <<canvasService, tournamentData, CANVAS_ID, canvasExists,
                 canvasBlocks, boot, cycles, started, clock>>

DmClose ==
  /\ said' = Answer("close games", CountOf(tournamentData, "closeGames"))
  /\ UNCHANGED <<canvasService, tournamentData, CANVAS_ID, canvasExists,
                 canvasBlocks, boot, cycles, started, clock>>

DmUpset ==
  /\ said' = Answer("upsets", CountOf(tournamentData, "upsets"))
  /\ UNCHANGED <<canvasService, tournamentData, CANVAS_ID, canvasExists,
                 canvasBlocks, boot, cycles, started, clock>>

Next ==
  \/ InitCheckCanvas
  \/ InitCreateOk
  \/ InitStructureOk
  \/ InitStepFails
  \/ InitContentOk
  \/ InitContentFails
  \/ BootCycle
  \/ CronTrigger
  \/ DmRefresh
  \/ \E c \in Cycles, response \in Responses : FetchArray(c, response)
  \/ \E c \in Cycles, response \in Responses : FetchAborts(c, response)
  \/ \E c \in Cycles : PublishOk(c)
  \/ \E c \in Cycles : PublishFails(c)

Spec == Init /\ [][Next]_vars

(***************************************************************************)
(* The startup of the process, up to the end of its first cycle, with the  *)
(* count queries arriving at any time; no refresh request, no cron tick.   *)
(***************************************************************************)
NextQuery ==
  \/ InitCheckCanvas
  \/ InitCreateOk
  \/ InitStructureOk
  \/ InitStepFails
  \/ InitContentOk
  \/ InitContentFails
  \/ BootCycle
  \/ \E c \in Cycles, response \in Responses : FetchArray(c, response)
  \/ \E c \in Cycles, response \in Responses : FetchAborts(c, response)
  \/ \E c \in Cycles : PublishOk(c)
  \/ \E c \in Cycles : PublishFails(c)
  \/ DmCurrent
  \/ DmClose
  \/ DmUpset

SpecQuery == Init /\ [][NextQuery]_vars
(***************************************************************************)
(* The first cycle of a process, run to its end with no other handler in   *)
(* between, against a canvas that exists, over every batch of a bounded    *)
(* shape.                                                                  *)
(***************************************************************************)
InitSeqWith(file) ==
  /\ canvasService = file
  /\ tournamentData = InitialTournamentData
  /\ CANVAS_ID = "C_ENV"
  /\ canvasExists = {"C_ENV"}
  /\ canvasBlocks = [id \in CanvasIds |-> IF id = "C_ENV" THEN StructureBlocks ELSE <<>>]
  /\ boot = "scheduled"
  /\ cycles = [c \in Cycles |-> NoCycle]
  /\ started = 0
  /\ clock = 1
  /\ said = Say("", 0)

InitSeq == InitSeqWith("services/canvasService.js")

\* updateTournamentData from the return of the fetch to the end of the publish
RunCycle(gameData) ==
  LET data == BuildSnapshot(gameData, clock, tournamentData)
  IN /\ started = 0
     /\ started' = 1
     /\ tournamentData' = data
     /\ clock' = clock + 1
     /\ canvasBlocks' =
          [canvasBlocks EXCEPT ![CANVAS_ID] =
             UpdateCanvasContentBlocks(data, clock)]
     /\ cycles' = [cycles EXCEPT ![1] =
          [NoCycle EXCEPT !.fetch = "ok", !.publish = "ok",
                          !.result = CycleResult(FALSE)]]
     /\ UNCHANGED <<canvasService, CANVAS_ID, canvasExists, boot, said>>

AwayNames ==
  <<"Akron", "Baylor", "Clemson", "Dayton", "Elon", "Furman", "Nevada", "Oregon">>
HomeNames ==
  <<"Gonzaga", "Houston", "Illinois", "Kansas", "Liberty", "Memphis", "Purdue",
    "Rutgers">>

\* the game at position i of a batch: its id, start time and teams go by i
GameAt(i, shape) ==
  Game(i, shape.status, i, AwayNames[i], HomeNames[i],
       shape.seeds[1], shape.seeds[2], shape.scores[1], shape.scores[2])

BatchOf(shapes) == [i \in 1..Len(shapes) |-> GameAt(i, shapes[i])]

Statuses == {"Final", "InProgress", "Scheduled"}

\* classification: every status, seeds either way round and equal, scores
\* either way round and equal, within and beyond the close-game threshold
ClassShapes ==
  [status : Statuses,
   seeds : {<<1, 2>>, <<2, 1>>, <<2, 2>>},
   scores : {<<0, 6>>, <<6, 0>>, <<6, 6>>}]

NextClassify ==
  \E n \in 0..MaxClassGames :
    \E shapes \in [1..n -> ClassShapes] : RunCycle(BatchOf(shapes))

SpecClassify == InitSeq /\ [][NextClassify]_vars

\* averaging: totals that divide evenly, that round up, down and on a tie
AvgShapes ==
  [status : {"Final"}, seeds : {<<1, 2>>},
   scores : {<<0, 0>>, <<0, 1>>, <<2, 1>>, <<-1, 0>>}]
    \cup [status : {"InProgress"}, seeds : {<<1, 2>>}, scores : {<<2, 1>>}]

NextAvg ==
  \E n \in 0..MaxAvgGames :
    \E shapes \in [1..n -> AvgShapes] : RunCycle(BatchOf(shapes))

SpecAvg == InitSeq /\ [][NextAvg]_vars

\* closest games: Final games with margins 0, 1 and 2, and a game in progress
RankShapes ==
  [status : {"Final"}, seeds : {<<1, 2>>},
   scores : {<<0, 0>>, <<0, 1>>, <<2, 0>>}]
    \cup [status : {"InProgress"}, seeds : {<<1, 2>>}, scores : {<<0, 0>>}]

NextRank ==
  \E n \in 0..MaxRankGames :
    \E shapes \in [1..n -> RankShapes] : RunCycle(BatchOf(shapes))

SpecRank == InitSeq /\ [][NextRank]_vars

\* top scoring teams: a team that plays away and at home (Gonzaga), six
\* teams over three games, a team whose name is a number, scores that tie
\* and that do not, and a game in progress that credits nobody
TopPairs ==
  {<<"Akron", "Gonzaga">>, <<"Gonzaga", "Baylor">>, <<"Clemson", "7">>,
   <<"Dayton", "Elon">>}

TopShapes ==
  [status : {"Final"}, teams : TopPairs, scores : {<<2, 1>>, <<1, 2>>, <<1, 1>>}]
    \cup [status : {"InProgress"}, teams : {<<"Akron", "Gonzaga">>},
          scores : {<<9, 9>>}]

TopGameAt(i, shape) ==
  Game(i, shape.status, i, shape.teams[1], shape.teams[2], 1, 2,
       shape.scores[1], shape.scores[2])

NextTop ==
  \E n \in 0..MaxTopGames :
    \E shapes \in [1..n -> TopShapes] :
      RunCycle([i \in 1..n |-> TopGameAt(i, shapes[i])])

SpecTop == InitSeq /\ [][NextTop]_vars

(***************************************************************************)
(* Two cycles one after the other: the games of the second batch are those *)
(* of the first (a game keeps its GameID and its teams), at another status *)
(* and score.                                                              *)
(***************************************************************************)
\* the second call of updateTournamentData, run to its end; the snapshot the
\* first call built is kept with the first call
RunNextCycle(gameData) ==
  LET data == BuildSnapshot(gameData, clock, tournamentData)
  IN /\ started = 1
     /\ started' = 2
     /\ tournamentData' = data
     /\ clock' = clock + 1
     /\ canvasBlocks' =
          [canvasBlocks EXCEPT ![CANVAS_ID] =
             UpdateCanvasContentBlocks(data, clock)]
     /\ cycles' = [cycles EXCEPT
          ![1].built = tournamentData,
          ![2] = [NoCycle EXCEPT !.fetch = "ok", !.publish = "ok",
                                 !.result = CycleResult(FALSE)]]
     /\ UNCHANGED <<canvasService, CANVAS_ID, canvasExists, boot, said>>

\* in progress and 5 apart, in progress and 6 apart, Final and 5 apart, and
\* not started at 0-0
CloseShapes ==
  [status : {"InProgress"}, seeds : {<<1, 2>>}, scores : {<<5, 0>>, <<0, 6>>}]
    \cup [status : {"Final"}, seeds : {<<1, 2>>}, scores : {<<5, 0>>}]
    \cup [status : {"Scheduled"}, seeds : {<<1, 2>>}, scores : {<<0, 0>>}]

NextClose ==
  \E n \in 0..MaxCloseGames :
    \E shapes \in [1..n -> CloseShapes] :
      \/ RunCycle(BatchOf(shapes))
      \/ RunNextCycle(BatchOf(shapes))

SpecClose == InitSeq /\ [][NextClose]_vars

(***************************************************************************)
(* Rendering: the first cycle with either copy of updateCanvasContent      *)
(* loaded, and then the same snapshot rendered again at later times.       *)
(***************************************************************************)
InitRender == \E file \in CanvasServiceFiles : InitSeqWith(file)

\* a close game in progress, one that is not close, a Final game that is an
\* upset, and a game to come
RenderShapes ==
  [status : {"InProgress"}, seeds : {<<1, 2>>}, scores : {<<30, 28>>, <<30, 20>>}]
    \cup [status : {"Final"}, seeds : {<<1, 2>>}, scores : {<<60, 70>>}]
    \cup [status : {"Scheduled"}, seeds : {<<1, 2>>}, scores : {<<0, 0>>}]

\* updateCanvasContent(web, CANVAS_ID, tournamentData) called once more
RenderAgain ==
  /\ started = 1
  /\ clock <= MaxRenders + 1
  /\ clock' = clock + 1
  /\ canvasBlocks' =
       [canvasBlocks EXCEPT ![CANVAS_ID] =
          UpdateCanvasContentBlocks(tournamentData, clock)]
  /\ UNCHANGED <<canvasService, tournamentData, CANVAS_ID, canvasExists, boot,
                 cycles, started, said>>

NextRender ==
  \/ \E n \in 0..MaxRenderGames :
       \E shapes \in [1..n -> RenderShapes] : RunCycle(BatchOf(shapes))
  \/ RenderAgain

SpecRender == InitRender /\ [][NextRender]_vars

(***************************************************************************)
(* Properties.                                                             *)
(***************************************************************************)
InFlight == {c \in Cycles : cycles[c].pc # "idle"}
Publishing == {c \in Cycles : cycles[c].pc = "publishing"}

\* the blocks are the rendering of a snapshot built from a fetched batch
IsSnapshotRender(blocks) ==
  /\ Len(blocks) >= 14
  /\ blocks[Len(blocks) - 2].text.label = "Tournament Progress"

\* the time in the footer of such blocks: the lastUpdated of the snapshot
StampOf(blocks) == blocks[Len(blocks)].text.lines[1].time

\* C1: at most one refresh cycle is in flight at a time, and so at most one
\* publish to the document store is outstanding at a time.
C1_AtMostOneCycleInFlight ==
  /\ Cardinality(InFlight) <= 1
  /\ Cardinality(Publishing) <= 1

\* C2: snapshot monotonicity: a canvas that holds the rendering of one
\* fetched batch is never overwritten with the rendering of a batch that
\* was fetched earlier.
C2_PublishesInFetchOrder ==
  [][\A id \in CanvasIds :
       (IsSnapshotRender(canvasBlocks[id]) /\ IsSnapshotRender(canvasBlocks'[id]))
         => StampOf(canvasBlocks'[id]) >= StampOf(canvasBlocks[id])]_vars

\* C3: when the publish of a cycle fails, the snapshot that cycle built is
\* not the committed one: tournamentData is what it was before the cycle.
C3_FailedPublishKeepsPrevious ==
  [][\A c \in Cycles :
       (cycles[c].pc = "publishing" /\ cycles'[c].publish = "failed")
         => tournamentData' # cycles[c].built]_vars

\* every part of a snapshot is derived from the batch in its games field
DerivedFromOneBatch(data) ==
  LET games == data.games
      final == SelectSeq(games, LAMBDA g : g.Status = "Final")
      live == SelectSeq(games, LAMBDA g : g.Status = "InProgress")
  IN /\ data.currentGames = live
     /\ data.completedGames = final
     /\ data.upcomingGames = SelectSeq(games, LAMBDA g : g.Status = "Scheduled")
     /\ data.closeGames =
          SelectSeq(live, LAMBDA g :
            Abs(g.AwayTeamScore - g.HomeTeamScore) <= NOTIFICATION_THRESHOLD)
     /\ data.upsets = SelectSeq(final, IsUpsetStats)
     /\ data.stats = calculateTournamentStats(games)

\* C4: in every reachable state the snapshot the query handlers see is whole:
\* before the first cycle stores one it is the initial value, and from then
\* on its subsets and statistics are all derived from its own games; the
\* same holds of the snapshot a cycle hands to the renderer.
C4_SnapshotNeverHalfBuilt ==
  /\ IF tournamentData.lastUpdated = null
     THEN DOMAIN tournamentData = DOMAIN InitialTournamentData
          /\ tournamentData.games = <<>> /\ tournamentData.upsets = <<>>
     ELSE DerivedFromOneBatch(tournamentData)
  /\ \A c \in Publishing : DerivedFromOneBatch(cycles[c].built)

\* a cycle is suspended at its publish, another at its fetch, and the
\* snapshot in between holds games
C4_Witness ==
  /\ tournamentData.lastUpdated # null
  /\ tournamentData.games # <<>>
  /\ \E c, d \in Cycles :
       cycles[c].pc = "publishing" /\ cycles[d].pc = "fetching"

C6_CycleAlwaysReturns ==
  /\ \A c \in Cycles :
       /\ cycles[c].result \in {"none", "returned"}
       /\ cycles[c].pc = "fetching" =>
            ENABLED (\E response \in Responses : FetchAborts(c, response))
       /\ cycles[c].pc = "publishing" => ENABLED PublishFails(c)
       /\ (cycles[c].pc = "publishing" /\ CANVAS_ID \in canvasExists)
            => ENABLED PublishOk(c)
       /\ cycles[c].result = "returned" => cycles[c].pc = "idle"
       /\ (cycles[c].pc = "idle" /\ c <= started) => cycles[c].result = "returned"
  /\ boot # "crashed"
  /\ said.text # "Sorry, I encountered an error processing your request."
  /\ started < MaxCycles => ENABLED DmRefresh

\* a cycle whose publish failed has returned, and so has one whose fetch
\* gave no array
C6_Witness ==
  \E c, d \in Cycles :
    /\ cycles[c].publish = "failed" /\ cycles[c].result = "returned"
    /\ cycles[d].fetch = "ok" /\ cycles[d].publish = "none"
    /\ cycles[d].result = "returned"

WellFormed(game) ==
  /\ game.AwayTeamSeed \in 1..16 /\ game.HomeTeamSeed \in 1..16
  /\ game.AwayTeamScore >= 0 /\ game.HomeTeamScore >= 0

\* C7: malformed records (a seed outside 1..16, a negative score) are dropped:
\* no snapshot holds one, in its games or in any subset.
C7_MalformedRecordsDropped ==
  /\ \A i \in 1..Len(tournamentData.games) : WellFormed(tournamentData.games[i])
  /\ \A c \in Publishing :
       \A i \in 1..Len(cycles[c].built.games) : WellFormed(cycles[c].built.games[i])

InUpsets(game) ==
  \E j \in 1..Len(tournamentData.upsets) : tournamentData.upsets[j] = game

\* the score of the team with the larger seed number is strictly the higher
WeakerSeedWon(game) ==
  LET weak == IF game.AwayTeamSeed > game.HomeTeamSeed THEN "away"
              ELSE IF game.HomeTeamSeed > game.AwayTeamSeed THEN "home"
              ELSE "neither"
  IN CASE weak = "away" -> game.AwayTeamScore - game.HomeTeamScore > 0
       [] weak = "home" -> game.HomeTeamScore - game.AwayTeamScore > 0
       [] OTHER -> FALSE

\* C8: a game of the batch is in upsets iff it is Final and the team with the
\* larger seed number has the strictly higher score; a Final game between
\* equal seeds is never in upsets.
C8_UpsetsExactly ==
  \A i \in 1..Len(tournamentData.games) :
    LET game == tournamentData.games[i]
    IN /\ InUpsets(game) <=> (game.Status = "Final" /\ WeakerSeedWon(game))
       /\ (game.Status = "Final" /\ game.AwayTeamSeed = game.HomeTeamSeed)
            => ~InUpsets(game)

\* an upset, and a Final game between equal seeds with a winner
C8_Witness ==
  \E i, j \in 1..Len(tournamentData.games) :
    LET a == tournamentData.games[i]
        b == tournamentData.games[j]
    IN /\ InUpsets(a)
       /\ b.Status = "Final" /\ b.AwayTeamSeed = b.HomeTeamSeed
       /\ b.AwayTeamScore # b.HomeTeamScore

Decisive(game) == game.AwayTeamScore # game.HomeTeamScore

\* C9: a Final game with equal scores is left out of upsets and out of the
\* statistics: the average, the per-team aggregates and the closest games
\* are those of the Final games that have a winner.
C9_TiedFinalExcluded ==
  tournamentData.lastUpdated # null =>
    LET decided == SelectSeq(tournamentData.completedGames, Decisive)
    IN /\ \A i \in 1..Len(tournamentData.games) :
            ~Decisive(tournamentData.games[i]) => ~InUpsets(tournamentData.games[i])
       /\ tournamentData.stats.avgPointsPerGame = avgPoints(decided)
       /\ tournamentData.stats.topScoringTeams = topScoringTeams(decided)
       /\ tournamentData.stats.closestGames = closestGames(decided)

\* the indices of the Final games of the batch, and their points
FinalIndices == {i \in 1..Len(tournamentData.games) :
                   tournamentData.games[i].Status = "Final"}

RECURSIVE PointsOver(_)
PointsOver(indices) ==
  IF indices = {} THEN 0
  ELSE LET i == CHOOSE i \in indices : TRUE
       IN tournamentData.games[i].AwayTeamScore
            + tournamentData.games[i].HomeTeamScore
            + PointsOver(indices \ {i})

\* C10: avgPointsPerGame is the total of both scores over the Final games
\* divided by their number, rounded to one decimal place (the nearest tenth),
\* and exactly 0 when the batch has no Final game.
C10_AvgPointsPerGame ==
  tournamentData.lastUpdated # null =>
    LET n == Cardinality(FinalIndices)
        total == PointsOver(FinalIndices)
        avgTenths == tournamentData.stats.avgPointsPerGame
    IN /\ n = 0 => avgTenths = 0
       /\ n > 0 => 2 * Abs(avgTenths * n - 10 * total) <= n

\* three Final games or more whose average is rounded up to the next tenth
C10_Witness ==
  /\ tournamentData.lastUpdated # null
  /\ Cardinality(FinalIndices) >= 3
  /\ tournamentData.stats.avgPointsPerGame * Cardinality(FinalIndices)
       > 10 * PointsOver(FinalIndices)

\* the position in the batch of the game an entry of closestGames stands for
\* (the away team of a game of these batches is its own)
PosOfEntry(entry) ==
  CHOOSE i \in 1..Len(tournamentData.games) :
    tournamentData.games[i].AwayTeam = entry.awayTeam

MarginAt(i) ==
  Abs(tournamentData.games[i].AwayTeamScore - tournamentData.games[i].HomeTeamScore)

\* C11: closestGames has at most 5 entries, each a Final game of the batch
\* with its margin |awayScore - homeScore|; it is sorted ascending by margin;
\* games of equal margin keep their batch order; and it holds the 5 Final
\* games of smallest margin: no Final game outside it has a smaller margin
\* than one inside it.
C11_ClosestGames ==
  tournamentData.lastUpdated # null =>
    LET cg == tournamentData.stats.closestGames
        listed == {PosOfEntry(cg[k]) : k \in 1..Len(cg)}
    IN /\ Len(cg) <= 5
       /\ Len(cg) = IF Cardinality(FinalIndices) < 5
                    THEN Cardinality(FinalIndices) ELSE 5
       /\ listed \subseteq FinalIndices
       /\ Cardinality(listed) = Len(cg)
       /\ \A k \in 1..Len(cg) :
            /\ tournamentData.games[PosOfEntry(cg[k])].HomeTeam = cg[k].homeTeam
            /\ cg[k].margin = MarginAt(PosOfEntry(cg[k]))
       /\ \A j, k \in 1..Len(cg) :
            j < k =>
              /\ cg[j].margin <= cg[k].margin
              /\ cg[j].margin = cg[k].margin
                   => PosOfEntry(cg[j]) < PosOfEntry(cg[k])
       /\ \A i \in FinalIndices \ listed :
            \A k \in listed : MarginAt(i) >= MarginAt(k)

\* six Final games: one is left out, and the list is not in batch order
C11_Witness ==
  /\ tournamentData.lastUpdated # null
  /\ Cardinality(FinalIndices) = 6
  /\ LET cg == tournamentData.stats.closestGames
     IN /\ Len(cg) = 5
        /\ PosOfEntry(cg[1]) = 6
        /\ cg[2].margin = cg[3].margin
        /\ cg[4].margin > cg[3].margin

\* the teams of the Final games, and what each one scored in them
FinalTeams ==
  {tournamentData.games[i].AwayTeam : i \in FinalIndices}
    \cup {tournamentData.games[i].HomeTeam : i \in FinalIndices}

\* when a team is first met in a scan of the Final games, away before home
FirstSeen(team) ==
  LET met == {2 * i - 1 : i \in {j \in FinalIndices :
                                   tournamentData.games[j].AwayTeam = team}}
               \cup {2 * i : i \in {j \in FinalIndices :
                                     tournamentData.games[j].HomeTeam = team}}
  IN CHOOSE m \in met : \A n \in met : m <= n

RECURSIVE TeamPointsOver(_, _)
TeamPointsOver(team, indices) ==
  IF indices = {} THEN 0
  ELSE LET i == CHOOSE i \in indices : TRUE
           game == tournamentData.games[i]
       IN (IF game.AwayTeam = team THEN game.AwayTeamScore ELSE 0)
            + (IF game.HomeTeam = team THEN game.HomeTeamScore ELSE 0)
            + TeamPointsOver(team, indices \ {i})

TeamGames(team) ==
  Cardinality({i \in FinalIndices : tournamentData.games[i].AwayTeam = team})
    + Cardinality({i \in FinalIndices : tournamentData.games[i].HomeTeam = team})

\* C12: topScoringTeams has at most 5 entries, each a team of the Final games
\* with its average points over them to the nearest tenth, away and home
\* appearances both credited; it is sorted descending by that average; and
\* teams of equal average stand in the order in which a scan of the Final
\* games first meets them.
C12_TopScoringTeams ==
  tournamentData.lastUpdated # null =>
    LET top == tournamentData.stats.topScoringTeams
    IN /\ Len(top) <= 5
       /\ Len(top) = IF Cardinality(FinalTeams) < 5
                     THEN Cardinality(FinalTeams) ELSE 5
       /\ \A k \in 1..Len(top) :
            /\ top[k].team \in FinalTeams
            /\ top[k].games = TeamGames(top[k].team)
            /\ top[k].totalPoints = TeamPointsOver(top[k].team, FinalIndices)
            /\ 2 * Abs(top[k].avgPoints * top[k].games - 10 * top[k].totalPoints)
                 <= top[k].games
       /\ \A j, k \in 1..Len(top) :
            j < k =>
              /\ top[j].team # top[k].team
              /\ top[j].avgPoints >= top[k].avgPoints
              /\ top[j].avgPoints = top[k].avgPoints
                   => FirstSeen(top[j].team) < FirstSeen(top[k].team)

\* the statistics of the mock dataset but for the number of upsets
MockScenarioBut(data) ==
  /\ data.stats.totalGames = 5
  /\ data.stats.completedGames = 2
  /\ data.stats.inProgressGames = 1
  /\ data.stats.upcomingGames = 2
  /\ data.stats.avgPointsPerGame = 1300
  /\ Len(data.stats.closestGames) = 2
  /\ data.stats.closestGames[1].awayTeam = "Duquesne"
  /\ data.stats.closestGames[1].homeTeam = "BYU"
  /\ data.stats.closestGames[1].margin = 2
  /\ data.stats.closestGames[2].awayTeam = "Virginia"
  /\ data.stats.closestGames[2].homeTeam = "Colorado"
  /\ data.stats.closestGames[2].margin = 6

\* C13 as stated: for the five games of the mock dataset the result is
\* completed = 2, inProgress = 1, upcoming = 2, upsets = 2,
\* avgPointsPerGame = 130.0 and closestGames = [Duquesne/BYU margin 2,
\* Virginia/Colorado margin 6].
C13_MockScenarioAsStated ==
  tournamentData.games = getMockTournamentData =>
    /\ MockScenarioBut(tournamentData)
    /\ tournamentData.stats.upsets = 2
    /\ Len(tournamentData.upsets) = 2

\* C13: for the five games of the mock dataset the result is completed = 2,
\* inProgress = 1, upcoming = 2, upsets = 1 (Duquesne, seed 11, over BYU,
\* seed 6; Colorado, seed 8, over Virginia, seed 9, is no upset),
\* avgPointsPerGame = 130.0 and closestGames = [Duquesne/BYU margin 2,
\* Virginia/Colorado margin 6].
C13_MockScenario ==
  tournamentData.games = getMockTournamentData =>
    /\ MockScenarioBut(tournamentData)
    /\ tournamentData.stats.upsets = 1
    /\ Len(tournamentData.upsets) = 1
    /\ tournamentData.upsets[1].GameID = 1002

\* the provider call failed and the snapshot of the mock dataset is stored
C13_Witness ==
  /\ tournamentData.games = getMockTournamentData
  /\ \E c \in Cycles : cycles[c].fetch = "error"

\* cycle c starts in this step, called by who
Starts(c, who) == cycles[c].caller # who /\ cycles'[c].caller = who

\* C14: the bootstrap runs in this order: the check that the target document
\* exists; the creation of a document, only when the target is absent; then
\* one refresh cycle, started once and ended before the periodic trigger is
\* registered, whether or not the check and the creation succeeded; no
\* periodic cycle starts before that.
C14_BootstrapOrder ==
  [][/\ ("C_NEW" \notin canvasExists /\ "C_NEW" \in canvasExists')
          => (boot = "createCanvas" /\ CANVAS_ID \notin canvasExists)
     /\ \A c \in Cycles :
          /\ Starts(c, "boot") => (boot = "firstCycle" /\ boot' = "inFirstCycle")
          /\ Starts(c, "cron") => boot = "scheduled"
     /\ (boot # "scheduled" /\ boot' = "scheduled")
          => /\ boot = "inFirstCycle"
             /\ \E c \in Cycles :
                  /\ cycles[c].caller = "boot" /\ cycles[c].pc # "idle"
                  /\ cycles'[c].pc = "idle"
     /\ (boot \in {"createCanvas", "updateStructure", "loadingContent"}
           /\ boot' # boot)
          => boot' \in {"loadingContent", "firstCycle"}]_vars

\* the kind of each block, and the title of a header
Outline(blocks) ==
  [i \in 1..Len(blocks) |->
     <<blocks[i].type,
       IF blocks[i].type = "header" THEN blocks[i].text.label ELSE "">>]

\* the fixed sections: header, games in progress, recently completed,
\* upcoming, statistics, footer
FixedOutline ==
  << <<"header", "NCAA Tournament Tracker 2025">>, <<"divider", "">>,
     <<"header", "Games In Progress">>, <<"section", "">>, <<"divider", "">>,
     <<"header", "Recently Completed Games">>, <<"section", "">>, <<"divider", "">>,
     <<"header", "Upcoming Games">>, <<"section", "">>, <<"divider", "">>,
     <<"header", "Tournament Statistics">>, <<"section", "">>, <<"divider", "">>,
     <<"context", "">> >>

IsAlert(block) ==
  block.type = "section" /\ block.text.label = "CLOSE GAME ALERT"

HasAlert(blocks) == \E i \in 1..Len(blocks) : IsAlert(blocks[i])

\* the blocks but for the two the alert takes, the third and the fourth
WithoutAlert(blocks) == SubSeq(blocks, 1, 2) \o SubSeq(blocks, 5, Len(blocks))

IsWholeDocument(blocks) ==
  \/ Outline(blocks) = FixedOutline
  \/ /\ Len(blocks) = Len(FixedOutline) + 2
     /\ IsAlert(blocks[3])
     /\ Outline(WithoutAlert(blocks)) = FixedOutline

CycleSteps ==
  {<<"idle", "fetching">>, <<"fetching", "publishing">>,
   <<"fetching", "idle">>, <<"publishing", "idle">>}

\* C18: within one cycle the steps come in the order fetch, snapshot build,
\* publish, return to idle. A cycle starts once, with its fetch; it reaches
\* its publish only from its fetch, with the snapshot built from the batch
\* that fetch gave and the blocks rendered from that snapshot; its publish
\* settles once, and only then, or when the fetch gave nothing to build
\* from, is the cycle back in idle.
C18_CycleStepOrder ==
  [][\A c \in Cycles :
       /\ cycles'[c].pc # cycles[c].pc
            => <<cycles[c].pc, cycles'[c].pc>> \in CycleSteps
       /\ (cycles[c].pc = "idle" /\ cycles'[c].pc = "fetching")
            => /\ c = started + 1 /\ started' = c
               /\ cycles[c] = NoCycle
               /\ cycles'[c].fetch = "none" /\ cycles'[c].publish = "none"
       /\ (cycles[c].pc = "fetching" /\ cycles'[c].pc = "publishing")
            => /\ cycles'[c].fetch \in {"ok", "error"}
               /\ cycles'[c].fetch = "ok" => cycles'[c].built.games \in ProviderBatches
               /\ cycles'[c].fetch = "error"
                    => cycles'[c].built.games = getMockTournamentData
               /\ DerivedFromOneBatch(cycles'[c].built)
               /\ tournamentData' = cycles'[c].built
               /\ cycles'[c].request.blocks = RenderBlocks(cycles'[c].built)
               /\ cycles'[c].publish = "called"
               /\ canvasBlocks' = canvasBlocks
       /\ (cycles[c].pc = "fetching" /\ cycles'[c].pc = "idle")
            => /\ cycles'[c].publish = "none"
               /\ tournamentData' = tournamentData
               /\ canvasBlocks' = canvasBlocks
       /\ cycles'[c].publish # cycles[c].publish
            => \/ cycles[c].pc = "fetching" /\ cycles'[c].publish = "called"
               \/ /\ cycles[c].pc = "publishing" /\ cycles'[c].pc = "idle"
                  /\ cycles[c].publish = "called"
                  /\ cycles'[c].publish \in {"ok", "failed"}
       /\ (cycles[c].pc # "idle" /\ cycles'[c].pc = "idle")
            => cycles'[c].result = "returned"]_vars

\* one cycle has gone through fetch, build and publish and is back in idle,
\* another has ended at its fetch
C18_Witness ==
  \E c, d \in Cycles :
    /\ cycles[c].pc = "idle" /\ cycles[c].publish = "ok"
    /\ cycles[c].result = "returned"
    /\ cycles[d].pc = "idle" /\ cycles[d].fetch = "ok"
    /\ cycles[d].publish = "none" /\ cycles[d].result = "returned"

\* the positions in the batch of the games that are in progress with the
\* scores no more than the threshold apart
CloseIndices ==
  {i \in 1..Len(tournamentData.games) :
     /\ tournamentData.games[i].Status = "InProgress"
     /\ tournamentData.games[i].AwayTeamScore - tournamentData.games[i].HomeTeamScore
          \in (0 - NOTIFICATION_THRESHOLD)..NOTIFICATION_THRESHOLD}

InClose(id) ==
  \E k \in 1..Len(tournamentData.closeGames) :
    tournamentData.closeGames[k].GameID = id

\* C19: the close subset of a snapshot is exactly the games of its batch that
\* are InProgress with |awayScore - homeScore| <= threshold, in batch order;
\* a game that was in close in the snapshot before is in close now only if
\* it is so in the current batch.
C19_CloseIsRecomputed ==
  tournamentData.lastUpdated # null =>
    LET close == tournamentData.closeGames
        before == cycles[1].built
    IN /\ Len(close) = Cardinality(CloseIndices)
       /\ \A i \in CloseIndices :
            \E k \in 1..Len(close) : close[k] = tournamentData.games[i]
       /\ \A j, k \in 1..Len(close) : j < k => close[j].GameID < close[k].GameID
       /\ before # EmptyObject =>
            \A k \in 1..Len(before.closeGames) :
              InClose(before.closeGames[k].GameID) =>
                \E i \in CloseIndices :
                  tournamentData.games[i].GameID = before.closeGames[k].GameID

\* a game that was close in the first snapshot is in the second batch, still
\* in progress and 6 apart, and another has ended 5 apart: neither is in close
C19_Witness ==
  /\ cycles[1].built # EmptyObject
  /\ Len(cycles[1].built.closeGames) = 2
  /\ tournamentData.closeGames = <<>>
  /\ Len(tournamentData.games) = 2
  /\ tournamentData.games[1].Status = "InProgress"
  /\ tournamentData.games[2].Status = "Final"

\* the game lines of the blocks: those of the sections of games and of the
\* alert
GameLines(blocks) ==
  UNION {{blocks[i].text.lines[k] : k \in 1..Len(blocks[i].text.lines)} :
           i \in {j \in 1..Len(blocks) :
                    /\ blocks[j].type = "section"
                    /\ blocks[j].text.label \in {"", "CLOSE GAME ALERT"}}}

\* the away teams of the upsets subset (a team plays one game of the batch)
UpsetAwayTeams ==
  {tournamentData.upsets[j].AwayTeam : j \in 1..Len(tournamentData.upsets)}

\* C20: the three upset computations agree: the count in the statistics is
\* the size of the upsets subset, which is also the count the statistics
\* section shows; and a rendered game line carries the upset marker exactly
\* when its game is in the upsets subset.
C20_UpsetComputationsAgree ==
  tournamentData.lastUpdated # null =>
    LET blocks == canvasBlocks[CANVAS_ID]
        lines == GameLines(blocks)
    IN /\ tournamentData.stats.upsets = Len(tournamentData.upsets)
       /\ blocks[Len(blocks) - 2].text.lines[1].upsets = Len(tournamentData.upsets)
       /\ \A line \in lines : line.isUpset <=> line.away \in UpsetAwayTeams

\* an upset on a line with the marker, and a game in progress that the team
\* with the larger seed number leads, on a line without it
C20_Witness ==
  /\ tournamentData.lastUpdated # null
  /\ Len(tournamentData.upsets) = 1
  /\ \E line \in GameLines(canvasBlocks[CANVAS_ID]) : line.isUpset
  /\ \E i \in 1..Len(tournamentData.games) :
       /\ tournamentData.games[i].Status = "InProgress"
       /\ tournamentData.games[i].HomeTeamSeed > tournamentData.games[i].AwayTeamSeed
       /\ tournamentData.games[i].HomeTeamScore > tournamentData.games[i].AwayTeamScore

QueryLabels == {"games in progress", "close games", "upsets"}

\* C21: before any cycle has committed a snapshot (at the start, during
\* initializeCanvas, while the first cycle is fetching, after a first cycle
\* that built nothing) a count query for games in progress, close games or
\* upsets answers 0 and not with the error message; and a step that answers
\* a count query leaves the snapshot as it is and starts no fetch and no
\* publish.
C21_QueriesBeforeFirstCommit ==
  [][/\ (tournamentData'.lastUpdated = null /\ said'.text # "")
          => (said'.text \in QueryLabels /\ said'.n = 0)
     /\ (said' # said /\ said'.text \in QueryLabels)
          => /\ tournamentData' = tournamentData
             /\ cycles' = cycles /\ started' = started
             /\ canvasBlocks' = canvasBlocks /\ canvasExists' = canvasExists
             /\ boot' = boot]_vars

\* a count query has been answered with 0 while the first cycle is fetching
C21_Witness ==
  /\ tournamentData.lastUpdated = null
  /\ said = Say("close games", 0)
  /\ \E c \in Cycles : cycles[c].pc = "fetching"

Refreshed == "Tournament data has been refreshed! Check the Canvas for updates."

\* C22: a 'refresh' request is told that the tournament data has been
\* refreshed only when the cycle it started has published: when the cycle
\* of a request ends and the requester is told so, the publish of that cycle
\* has succeeded.
C22_RefreshedOnlyOnSuccess ==
  [][\A c \in Cycles :
       (/\ cycles[c].caller = "dm"
        /\ cycles[c].pc # "idle" /\ cycles'[c].pc = "idle"
        /\ said'.text = Refreshed)
         => cycles'[c].publish = "ok"]_vars

\* C23: when the bootstrap has found the target document absent and created
\* one, the cycle of the bootstrap and every cron cycle, which all start
\* after that, send their publish to the id of the created document.
C23_PublishToCreatedCanvas ==
  \A c \in Publishing :
    (/\ cycles[c].caller \in {"boot", "cron"}
     /\ CANVAS_ID \notin canvasExists
     /\ "C_NEW" \in canvasExists)
      => cycles[c].request.canvas_id = "C_NEW"

====
